---- MODULE Spec2Model ----
(***************************************************************************)
(* Tic-tac-toe rules engine (src/src/game.rs) and game tree builder        *)
(* (src/src/game_tree.rs).                                                 *)
(*                                                                         *)
(* Spec     : a Game driven from Game::new() by arbitrary make_move and    *)
(*            next_games calls, each call's arguments and result recorded. *)
(* SpecTree : a walk from the root of GameTree::from(Game::new()) down     *)
(*            through the edges, one node at a time; its nodes are the     *)
(*            games reachable by successful moves.  The statistics of a    *)
(*            node (x_wins, o_wins, ties in f32, node and leaf counts) are *)
(*            computed from its game by the recursion of the code.         *)
(***************************************************************************)
EXTENDS Integers, Sequences, FiniteSets, TLC

\* const BOARD_SIZE: usize = 3;
BOARD_SIZE == 3

\* largest row / col argument handed to make_move (BOARD_SIZE and above are
\* out of range)
MaxCoord == 3

None == "None"

Idx == 0 .. (BOARD_SIZE - 1)

Pos == Idx \X Idx

Coord == 0 .. MaxCoord

----------------------------------------------------------------------------
(* enum Piece, enum Winner *)

other(piece) == IF piece = "X" THEN "O" ELSE "X"

Winner_from(piece) == IF piece = "X" THEN "WinnerX" ELSE "WinnerO"

----------------------------------------------------------------------------
(* to_winner *)

RECURSIVE check_rows_skip_last(_, _)
check_rows_skip_last(board, i) ==
    IF i >= BOARD_SIZE - 1 THEN None
    ELSE LET first == board[<<i, 0>>] IN
         IF first # None /\ (\A c \in Idx : board[<<i, c>>] = first)
         THEN Winner_from(first)
         ELSE check_rows_skip_last(board, i + 1)

RECURSIVE check_rows(_, _)
check_rows(board, i) ==
    IF i >= BOARD_SIZE THEN None
    ELSE LET first == board[<<i, 0>>] IN
         IF first # None /\ (\A c \in Idx : board[<<i, c>>] = first)
         THEN Winner_from(first)
         ELSE check_rows(board, i + 1)

RECURSIVE check_columns_first_from_row(_, _)
check_columns_first_from_row(board, i) ==
    IF i >= BOARD_SIZE THEN None
    ELSE LET first == board[<<i, 0>>] IN
         IF first # None /\ (\A r \in Idx : board[<<r, i>>] = first)
         THEN Winner_from(first)
         ELSE check_columns_first_from_row(board, i + 1)

RECURSIVE check_columns(_, _)
check_columns(board, i) ==
    IF i >= BOARD_SIZE THEN None
    ELSE LET first == board[<<0, i>>] IN
         IF first # None /\ (\A r \in Idx : board[<<r, i>>] = first)
         THEN Winner_from(first)
         ELSE check_columns(board, i + 1)

check_first_diag(board) ==
    LET top_left == board[<<0, 0>>] IN
    IF top_left # None
       /\ (\A i \in 1 .. (BOARD_SIZE - 1) : board[<<i, i>>] = top_left)
    THEN Winner_from(top_left)
    ELSE None

check_second_diag_samecol(board) ==
    LET max_index == BOARD_SIZE - 1
        top_right == board[<<0, max_index>>] IN
    IF top_right # None
       /\ (\A i \in 1 .. (BOARD_SIZE - 1) : board[<<i, i>>] = top_right)
    THEN Winner_from(top_right)
    ELSE None

check_second_diag(board) ==
    LET max_index == BOARD_SIZE - 1
        top_right == board[<<0, max_index>>] IN
    IF top_right # None
       /\ (\A i \in 1 .. (BOARD_SIZE - 1) :
              board[<<i, max_index - i>>] = top_right)
    THEN Winner_from(top_right)
    ELSE None

check_tie_never(board) == None

check_tie(board) ==
    IF \A p \in Pos : board[p] # None THEN "WinnerTie" ELSE None

to_winner(board) ==
    LET r == check_rows(board, 0) IN
    IF r # None THEN r ELSE
    LET c == check_columns(board, 0) IN
    IF c # None THEN c ELSE
    LET d1 == check_first_diag(board) IN
    IF d1 # None THEN d1 ELSE
    LET d2 == check_second_diag(board) IN
    IF d2 # None THEN d2 ELSE
    check_tie(board)

----------------------------------------------------------------------------
(* struct Game *)

Game_new_o_first ==
    [board |-> [p \in Pos |-> None], current_piece |-> "O", winner |-> None]

Game_new ==
    [board |-> [p \in Pos |-> None], current_piece |-> "X", winner |-> None]

is_finished(g) == g.winner # None

Ok == [kind |-> "Ok"]

\* the checks of make_move, in the order the code makes them
move_error_bounds_first(g, row, col) ==
    IF row >= BOARD_SIZE \/ col >= BOARD_SIZE
    THEN [kind |-> "InvalidPosition", row |-> row, col |-> col]
    ELSE IF is_finished(g)
    THEN [kind |-> "GameAlreadyOver"]
    ELSE IF g.board[<<row, col>>] # None
    THEN [kind |-> "TileNotEmpty", other_piece |-> g.board[<<row, col>>],
          row |-> row, col |-> col]
    ELSE Ok

move_error(g, row, col) ==
    IF is_finished(g)
    THEN [kind |-> "GameAlreadyOver"]
    ELSE IF row >= BOARD_SIZE \/ col >= BOARD_SIZE
    THEN [kind |-> "InvalidPosition", row |-> row, col |-> col]
    ELSE IF g.board[<<row, col>>] # None
    THEN [kind |-> "TileNotEmpty", other_piece |-> g.board[<<row, col>>],
          row |-> row, col |-> col]
    ELSE Ok

\* "modify the current state"
place_flip_first(g, row, col) ==
    LET piece == other(g.current_piece)
        b == [g.board EXCEPT ![<<row, col>>] = piece] IN
    [board |-> b, current_piece |-> piece, winner |-> to_winner(b)]

place_no_flip(g, row, col) ==
    LET b == [g.board EXCEPT ![<<row, col>>] = g.current_piece] IN
    [board |-> b, current_piece |-> g.current_piece, winner |-> to_winner(b)]

place_stale_winner(g, row, col) ==
    LET b == [g.board EXCEPT ![<<row, col>>] = g.current_piece] IN
    [board |-> b, current_piece |-> other(g.current_piece),
     winner |-> to_winner(g.board)]

place_no_write(g, row, col) ==
    [board |-> g.board, current_piece |-> other(g.current_piece),
     winner |-> to_winner(g.board)]

place(g, row, col) ==
    LET b == [g.board EXCEPT ![<<row, col>>] = g.current_piece] IN
    [board |-> b, current_piece |-> other(g.current_piece),
     winner |-> to_winner(b)]

make_move_flip_on_error(g, row, col) ==
    LET e == move_error(g, row, col) IN
    IF e.kind = "Ok"
    THEN [game |-> place(g, row, col), res |-> Ok]
    ELSE [game |-> [g EXCEPT !.current_piece = other(g.current_piece)],
          res |-> e]

make_move(g, row, col) ==
    LET e == move_error(g, row, col) IN
    IF e.kind = "Ok"
    THEN [game |-> place(g, row, col), res |-> Ok]
    ELSE [game |-> g, res |-> e]

\* the nested loops of valid_moves: k enumerates (row, col) row by row
RECURSIVE valid_moves_column_major(_, _)
valid_moves_column_major(g, k) ==
    IF k >= BOARD_SIZE * BOARD_SIZE THEN << >>
    ELSE LET col == k \div BOARD_SIZE
             row == k % BOARD_SIZE IN
         IF g.board[<<row, col>>] = None
         THEN << <<row, col>> >> \o valid_moves_column_major(g, k + 1)
         ELSE valid_moves_column_major(g, k + 1)

RECURSIVE valid_moves_loop(_, _)
valid_moves_loop(g, k) ==
    IF k >= BOARD_SIZE * BOARD_SIZE THEN << >>
    ELSE LET row == k \div BOARD_SIZE
             col == k % BOARD_SIZE IN
         IF g.board[<<row, col>>] = None
         THEN << <<row, col>> >> \o valid_moves_loop(g, k + 1)
         ELSE valid_moves_loop(g, k + 1)

valid_moves_rows_last(g) == valid_moves_column_major(g, 0)

valid_moves(g) == valid_moves_loop(g, 0)

\* next_games: one make_move per valid move on a clone of g; panic is the
\* assert!(res.is_ok()) tripping
RECURSIVE next_games_loop(_, _, _)
next_games_loop(g, moves, i) ==
    IF i > Len(moves) THEN [panic |-> FALSE, games |-> << >>]
    ELSE LET out == make_move(g, moves[i][1], moves[i][2]) IN
         IF out.res.kind # "Ok" THEN [panic |-> TRUE, games |-> << >>]
         ELSE LET rest == next_games_loop(g, moves, i + 1) IN
              IF rest.panic THEN rest
              ELSE [panic |-> FALSE, games |-> <<out.game>> \o rest.games]

next_games(g) == next_games_loop(g, valid_moves(g), 1)

----------------------------------------------------------------------------
(* struct GameTree: a node is its game and the games of its edges' children *)

GameTree_from(g) ==
    IF is_finished(g)
    THEN [game |-> g, edges |-> << >>, panic |-> FALSE]
    ELSE LET n == next_games(g) IN
         [game |-> g, edges |-> n.games, panic |-> n.panic]

\* assert_ne!(self.edges.len(), 0) in x_wins, o_wins and ties
edges_assert_fires(n) == ~is_finished(n.game) /\ Len(n.edges) = 0

----------------------------------------------------------------------------
(* f32 arithmetic (IEEE 754 binary32, round to nearest, ties to even) on    *)
(* the values the tree computes: zero, or m * 2^e with 2^23 <= m < 2^24     *)

F32Zero == [m |-> 0, e |-> 0]

F32One == [m |-> 2^23, e |-> -23]

\* s * 2^e rounded to 24 significant bits; s has 26 to 30 bits and its lowest
\* bit is sticky (set when bits below it were lost)
F32Round(s, e) ==
    LET k == CHOOSE j \in 2 .. 7 : 2^(23 + j) <= s /\ s < 2^(24 + j)
        q == s \div 2^k
        r == s % 2^k
        half == 2^(k - 1)
        q2 == IF r > half \/ (r = half /\ q % 2 = 1) THEN q + 1 ELSE q IN
    IF q2 = 2^24 THEN [m |-> 2^23, e |-> e + k + 1]
    ELSE [m |-> q2, e |-> e + k]

\* a + b for a, b >= 0 (three extra bits: guard, round, sticky)
F32Add(a, b) ==
    IF a.m = 0 THEN b
    ELSE IF b.m = 0 THEN a
    ELSE LET hi == IF a.e >= b.e THEN a ELSE b
             lo == IF a.e >= b.e THEN b ELSE a
             d == hi.e - lo.e
             low8 == lo.m * 8
             q == IF d > 27 THEN 0 ELSE low8 \div 2^d
             inexact == IF d > 27 THEN TRUE ELSE low8 % 2^d # 0
             sticky == IF inexact /\ q % 2 = 0 THEN q + 1 ELSE q IN
         F32Round(hi.m * 8 + sticky, hi.e - 3)

\* a / (n as f32) for a >= 0 and 1 <= n <= 9
F32DivLen(a, n) ==
    IF a.m = 0 THEN a
    ELSE LET q == (a.m * 32) \div n
             inexact == (a.m * 32) % n # 0 IN
         F32Round(2 * q + (IF inexact THEN 1 ELSE 0), a.e - 6)

\* .sum::<f32>() of ws[1..i][field], added left to right from 0.0
RECURSIVE F32Sum(_, _, _)
F32Sum(ws, field, i) ==
    IF i = 0 THEN F32Zero
    ELSE F32Add(F32Sum(ws, field, i - 1), ws[i][field])

----------------------------------------------------------------------------
(* GameTree::x_wins, o_wins, ties: the three functions differ only in the   *)
(* Winner they match, and are evaluated together in one descent             *)

\* the is_finished branch
leaf_wins_tie_as_x(g) ==
    [x_wins |-> IF g.winner \in {"WinnerX", "WinnerTie"}
                THEN F32One ELSE F32Zero,
     o_wins |-> IF g.winner = "WinnerO" THEN F32One ELSE F32Zero,
     ties |-> IF g.winner = "WinnerTie" THEN F32One ELSE F32Zero]

leaf_wins(g) ==
    [x_wins |-> IF g.winner = "WinnerX" THEN F32One ELSE F32Zero,
     o_wins |-> IF g.winner = "WinnerO" THEN F32One ELSE F32Zero,
     ties |-> IF g.winner = "WinnerTie" THEN F32One ELSE F32Zero]

\* edges.iter().map(..).sum::<f32>() / edges.len() as f32, over the results
\* ws of the children
mean_wins_len_minus_one(ws) ==
    LET n == Len(ws)
        d == IF n > 1 THEN n - 1 ELSE n IN
    [x_wins |-> F32DivLen(F32Sum(ws, "x_wins", n), d),
     o_wins |-> F32DivLen(F32Sum(ws, "o_wins", n), d),
     ties |-> F32DivLen(F32Sum(ws, "ties", n), d)]

mean_wins(ws) ==
    LET n == Len(ws) IN
    [x_wins |-> F32DivLen(F32Sum(ws, "x_wins", n), n),
     o_wins |-> F32DivLen(F32Sum(ws, "o_wins", n), n),
     ties |-> F32DivLen(F32Sum(ws, "ties", n), n)]

RECURSIVE wins(_)
\* e.child.x_wins(), e.child.o_wins(), e.child.ties() of every edge of the
\* node of game g
child_wins(g) ==
    LET edges == GameTree_from(g).edges IN
    [i \in 1 .. Len(edges) |-> wins(edges[i])]

wins(g) ==
    IF is_finished(g) THEN leaf_wins(g) ELSE mean_wins(child_wins(g))

\* struct Edge as GameTree::from fills it: w is what child.x_wins(),
\* child.o_wins() and child.ties() returned
make_edge_swapped(child, w) ==
    [child |-> child, x_wins |-> w.o_wins, o_wins |-> w.x_wins,
     ties |-> w.ties]

make_edge(child, w) ==
    [child |-> child, x_wins |-> w.x_wins, o_wins |-> w.o_wins,
     ties |-> w.ties]

\* self.edges of the node of game g, as GameTree::from collects them
tree_edges(g) ==
    LET edges == GameTree_from(g).edges IN
    [i \in 1 .. Len(edges) |-> make_edge(edges[i], wins(edges[i]))]

\* impl fmt::Display for GameTree: the three labelled lines written for an
\* edge after its child's game, each with the number handed to its {}
fmt_edge(e) ==
    << [label |-> "O wins: ", value |-> e.x_wins],
       [label |-> "X wins: ", value |-> e.o_wins],
       [label |-> "Ties: ", value |-> e.ties] >>

\* number of nodes and of leaves of GameTree::from(g)
RECURSIVE SumField(_, _, _)
SumField(cs, field, i) ==
    IF i = 0 THEN 0 ELSE SumField(cs, field, i - 1) + cs[i][field]

RECURSIVE tree_count(_)
tree_count(g) ==
    IF is_finished(g) THEN [nodes |-> 1, leaves |-> 1]
    ELSE LET edges == GameTree_from(g).edges
             cs == [i \in 1 .. Len(edges) |-> tree_count(edges[i])]
             n == Len(cs) IN
         [nodes |-> 1 + SumField(cs, "nodes", n),
          leaves |-> SumField(cs, "leaves", n)]

----------------------------------------------------------------------------
VARIABLES game, pre, res, arg, placed, succ, node, depth

vars == <<game, pre, res, arg, placed, succ, node, depth>>

apiVars == <<game, pre, res, arg, placed, succ>>

treeVars == <<node, depth>>

NoCall == [kind |-> "NoCall"]

NoGames == [called |-> FALSE, panic |-> FALSE, games |-> << >>]

Init ==
    /\ game = Game_new
    /\ pre = Game_new
    /\ res = NoCall
    /\ arg = <<0, 0>>
    /\ placed = << >>
    /\ succ = NoGames
    /\ node = GameTree_from(Game_new)
    /\ depth = 0

\* game.make_move(row, col)
MakeMove(row, col) ==
    /\ ~succ.panic
    /\ LET out == make_move(game, row, col) IN
       /\ game' = out.game
       /\ res' = out.res
       /\ placed' = IF out.res.kind = "Ok"
                    THEN Append(placed, out.game.board[<<row, col>>])
                    ELSE placed
    /\ pre' = game
    /\ arg' = <<row, col>>
    /\ succ' = NoGames
    /\ UNCHANGED treeVars

\* next_games(&game)
NextGames ==
    /\ ~succ.panic
    /\ LET n == next_games(game) IN
       succ' = [called |-> TRUE, panic |-> n.panic, games |-> n.games]
    /\ pre' = game
    /\ res' = NoCall
    /\ UNCHANGED <<game, arg, placed, treeVars>>

\* follow the i-th edge of the current node to its child
Descend(i) ==
    /\ ~node.panic
    /\ i \in 1 .. Len(node.edges)
    /\ node' = GameTree_from(node.edges[i])
    /\ depth' = depth + 1
    /\ UNCHANGED apiVars

Next ==
    \/ \E row \in Coord, col \in Coord : MakeMove(row, col)
    \/ NextGames

Spec == Init /\ [][Next]_vars

NextTree == \E i \in 1 .. (BOARD_SIZE * BOARD_SIZE) : Descend(i)

SpecTree == Init /\ [][NextTree]_vars

----------------------------------------------------------------------------
(* Vocabulary of the properties *)

ErrKinds == {"GameAlreadyOver", "InvalidPosition", "TileNotEmpty"}

\* the rows, the columns and the two full diagonals, as sets of cells
Lines ==
    {{<<r, c>> : c \in Idx} : r \in Idx}
    \cup {{<<r, c>> : r \in Idx} : c \in Idx}
    \cup {{<<i, i>> : i \in Idx}}
    \cup {{<<i, BOARD_SIZE - 1 - i>> : i \in Idx}}

LineOf(board, m) == {L \in Lines : \A p \in L : board[p] = m}

CompleteLines(board) == LineOf(board, "X") \cup LineOf(board, "O")

EmptyCells(board) == {p \in Pos : board[p] = None}

Full(board) == EmptyCells(board) = {}

\* position of a cell in the row-major scan
Rank(p) == p[1] * BOARD_SIZE + p[2]

\* to_winner with the four line checks made in the opposite order
to_winner_reversed(board) ==
    LET d2 == check_second_diag(board) IN
    IF d2 # None THEN d2 ELSE
    LET d1 == check_first_diag(board) IN
    IF d1 # None THEN d1 ELSE
    LET c == check_columns(board, 0) IN
    IF c # None THEN c ELSE
    LET r == check_rows(board, 0) IN
    IF r # None THEN r ELSE
    check_tie(board)

----------------------------------------------------------------------------
\* C1: a make_move call that returns an error leaves board, current piece and
\* winner exactly as they were; once the winner is set, no further call
\* changes the board, the turn or the winner.
C1_FailedMoveChangesNothing ==
    [][ /\ (res'.kind \in ErrKinds => game' = game /\ placed' = placed)
        /\ (is_finished(game) => game' = game /\ placed' = placed) ]_vars

C1_Witness ==
    /\ res.kind = "GameAlreadyOver"
    /\ is_finished(game)
    /\ EmptyCells(game.board) # {}
    /\ game = pre

\* C2: make_move fails with GameAlreadyOver if the winner is set; otherwise
\* with InvalidPosition{row, col} if row >= 3 or col >= 3; otherwise with
\* TileNotEmpty{other_piece, row, col} if the cell is occupied; and succeeds
\* in every remaining case.
C2_MoveResultByCase ==
    res.kind # "NoCall" =>
        LET row == arg[1]
            col == arg[2] IN
        IF pre.winner # None
        THEN res = [kind |-> "GameAlreadyOver"]
        ELSE IF row >= 3 \/ col >= 3
        THEN res = [kind |-> "InvalidPosition", row |-> row, col |-> col]
        ELSE IF pre.board[<<row, col>>] \in {"X", "O"}
        THEN res = [kind |-> "TileNotEmpty",
                    other_piece |-> pre.board[<<row, col>>],
                    row |-> row, col |-> col]
        ELSE res = [kind |-> "Ok"]

C2_Witness ==
    /\ pre.winner # None
    /\ arg[1] >= 3
    /\ res.kind = "GameAlreadyOver"

\* C3: after a successful make_move(row, col), valid_moves has exactly one
\* element fewer, the cell (row, col) holds the piece that was current before
\* the call, and every other cell is unchanged.
C3_SuccessfulMovePlacesOnePiece ==
    res.kind = "Ok" =>
        /\ Len(valid_moves(game)) = Len(valid_moves(pre)) - 1
        /\ game.board[arg] = pre.current_piece
        /\ \A p \in Pos \ {arg} : game.board[p] = pre.board[p]

C3_Witness ==
    /\ res.kind = "Ok"
    /\ Len(valid_moves(pre)) = 6
    /\ Len(valid_moves(game)) = 5
    /\ pre.board[arg] = None
    /\ game.board[arg] = "O"

\* C4: a new game is empty with X to move and no winner; the current piece
\* flips on every successful make_move and stays on every failed one, so the
\* marks placed by successive successful moves are X, O, X, O, ...
C4_TurnsAlternate ==
    /\ (placed = << >> =>
            /\ \A p \in Pos : game.board[p] = None
            /\ game.current_piece = "X"
            /\ game.winner = None)
    /\ (res.kind = "Ok" =>
            /\ game.current_piece # pre.current_piece
            /\ {game.current_piece, pre.current_piece} = {"X", "O"})
    /\ (res.kind \in ErrKinds => game.current_piece = pre.current_piece)
    /\ \A i \in 1 .. Len(placed) :
            placed[i] = IF i % 2 = 1 THEN "X" ELSE "O"

C4_Witness ==
    /\ placed = <<"X", "O", "X", "O">>
    /\ res.kind = "TileNotEmpty"
    /\ game.current_piece = "X"

\* C5: on every board reachable by legal play, the outcome stored by the
\* move that produced it is the win of mark M iff some row, column or full
\* diagonal is all M; Tie iff no line is complete and all nine cells are
\* occupied; no outcome otherwise.
C5_OutcomeMatchesLines ==
    LET g == node.game IN
    /\ (g.winner = "WinnerX" <=> LineOf(g.board, "X") # {})
    /\ (g.winner = "WinnerO" <=> LineOf(g.board, "O") # {})
    /\ (g.winner = "WinnerTie" <=>
            CompleteLines(g.board) = {} /\ Full(g.board))
    /\ (g.winner = None <=>
            CompleteLines(g.board) = {} /\ ~Full(g.board))

\* a ninth move that completes a line is a win, not a tie
C5_Witness ==
    /\ depth = 9
    /\ Full(node.game.board)
    /\ LineOf(node.game.board, "X") # {}
    /\ node.game.winner = "WinnerX"

\* C6 as stated: on every reachable board at most one line is complete.
C6_AtMostOneCompleteLine ==
    Cardinality(CompleteLines(node.game.board)) <= 1

\* C6 amended: on every reachable board at most two lines are complete, and
\* two complete lines belong to the same mark and cross in one cell.
C6_AtMostTwoCrossingLines ==
    LET b == node.game.board IN
    /\ Cardinality(CompleteLines(b)) <= 2
    /\ \A L1, L2 \in CompleteLines(b) :
           L1 # L2 =>
               /\ Cardinality(L1 \cap L2) = 1
               /\ \A p \in L1, q \in L2 : b[p] = b[q]

C6_Witness ==
    /\ Cardinality(CompleteLines(node.game.board)) = 2
    /\ depth >= 1

\* C7: no reachable board has a complete line of X and a complete line of O
\* at once, so the order in which to_winner checks the lines never
\* influences the outcome it returns on a reachable board.
C7_CheckOrderIrrelevant ==
    LET b == node.game.board IN
    /\ ~(LineOf(b, "X") # {} /\ LineOf(b, "O") # {})
    /\ to_winner_reversed(b) = to_winner(b)
    /\ \A L \in CompleteLines(b) :
           \A p \in L : Winner_from(b[p]) = to_winner(b)

\* a row (checked first) and the anti-diagonal (checked last) both complete
C7_Witness ==
    /\ {<<0, c>> : c \in Idx} \in CompleteLines(node.game.board)
    /\ {<<i, BOARD_SIZE - 1 - i>> : i \in Idx}
           \in CompleteLines(node.game.board)
    /\ node.game.winner = "WinnerX"

\* C8: valid_moves is empty iff the board is full or the game is terminal.
C8_NoValidMovesIffFullOrTerminal ==
    (Len(valid_moves(node.game)) = 0)
        <=> (Full(node.game.board) \/ is_finished(node.game))

\* C9: for a non-terminal game g, next_games(g) does not trip its assertion
\* and returns one game per empty cell of g in row-major order, the i-th
\* being g with make_move applied at the i-th empty cell; g is unchanged.
C9_NextGamesOnePerEmptyCell ==
    (succ.called /\ ~is_finished(pre)) =>
        /\ ~succ.panic
        /\ game = pre
        /\ Len(succ.games) = Cardinality(EmptyCells(pre.board))
        /\ \A i \in 1 .. Len(succ.games) :
               \E p \in EmptyCells(pre.board) :
                   /\ Cardinality({q \in EmptyCells(pre.board) :
                                      Rank(q) < Rank(p)}) = i - 1
                   /\ succ.games[i] = make_move(pre, p[1], p[2]).game
                   /\ succ.games[i].board[p] = pre.current_piece
                   /\ succ.games[i].current_piece # pre.current_piece

C9_Witness ==
    /\ succ.called
    /\ ~is_finished(pre)
    /\ Len(succ.games) = 5
    /\ succ.games[1].board[<<0, 2>>] = "O"
    /\ succ.games[2].board[<<1, 0>>] = "O"

\* C10: a node of the tree has no edges iff its game has a winner set; every
\* non-terminal node has at least one edge, so the assert_ne!(edges.len(), 0)
\* of x_wins, o_wins and ties never fires.
C10_LeafIffTerminal ==
    /\ (Len(node.edges) = 0 <=> is_finished(node.game))
    /\ (~is_finished(node.game) => Len(node.edges) >= 1)
    /\ ~edges_assert_fires(node)
    /\ ~node.panic

\* a leaf with unoccupied cells, reached by a win
C10_Witness ==
    /\ is_finished(node.game)
    /\ Len(node.edges) = 0
    /\ EmptyCells(node.game.board) # {}
    /\ depth = 5

----------------------------------------------------------------------------
(* Vocabulary of the tree statistics *)

\* a <= 1.0
F32LeOne(a) == a.m = 0 \/ a.e < -23 \/ a = F32One

\* |a - 1.0| <= 1e-6: a is in [0.5, 2), so one unit of m is 2^e
F32NearOne(a) ==
    \/ a.e = -23 /\ a.m - 2^23 <= 2^23 \div 1000000
    \/ a.e = -24 /\ 2^24 - a.m <= 2^24 \div 1000000

\* x + o + t as main adds them
F32Total(w) == F32Add(F32Add(w.x_wins, w.o_wins), w.ties)

\* C11: at the root and at every internal node and leaf of the tree built
\* from the empty board, x_wins() + o_wins() + ties() is 1.0 within 1e-6, and
\* each of the three values lies in [0, 1].
C11_ProbabilitiesSumToOne ==
    LET w == wins(node.game) IN
    /\ F32NearOne(F32Total(w))
    /\ F32LeOne(w.x_wins) /\ w.x_wins.m >= 0
    /\ F32LeOne(w.o_wins) /\ w.o_wins.m >= 0
    /\ F32LeOne(w.ties) /\ w.ties.m >= 0

\* an internal node from which all three outcomes are still possible
C11_Witness ==
    /\ depth = 6
    /\ ~is_finished(node.game)
    /\ LET w == wins(node.game) IN
       /\ w.x_wins.m > 0 /\ w.o_wins.m > 0 /\ w.ties.m > 0
       /\ F32NearOne(F32Total(w))

\* a rounded to four decimal digits, as the integer round(a * 10^4):
\* floor((20000 * m + 2^k) / 2^(k + 1)) for a = m * 2^(-k), 12 <= k <= 40,
\* with m split in two 12-bit halves to stay within 32 bits
F32Decimal4(a) ==
    IF a.m = 0 THEN 0
    ELSE LET k == 0 - a.e
             hi == a.m \div 2^12
             lo == a.m % 2^12
             t == 20000 * hi + 2^(k - 12) + (20000 * lo) \div 2^12 IN
         t \div 2^(k - 11)

\* C12 as stated: the root's probabilities are, to four decimal digits,
\* X-win = 0.5789, O-win = 0.2899 and tie = 0.1312.
C12_RootProbabilitiesAsStated ==
    depth = 0 =>
        LET w == wins(node.game) IN
        /\ F32Decimal4(w.x_wins) = 5789
        /\ F32Decimal4(w.o_wins) = 2899
        /\ F32Decimal4(w.ties) = 1312

\* C12 amended: the root's probabilities are, to four decimal digits,
\* X-win = 0.5849, O-win = 0.2881 and tie = 0.1270.
C12_RootProbabilities ==
    depth = 0 =>
        LET w == wins(node.game) IN
        /\ F32Decimal4(w.x_wins) = 5849
        /\ F32Decimal4(w.o_wins) = 2881
        /\ F32Decimal4(w.ties) = 1270

\* the root: the empty board, nine edges, X ahead of O
C12_Witness ==
    /\ depth = 0
    /\ node.game = Game_new
    /\ Len(node.edges) = 9
    /\ LET w == wins(node.game) IN
       F32Decimal4(w.x_wins) > F32Decimal4(w.o_wins)

\* 1.0 if the game's winner is w, 0.0 otherwise
Indicator(g, w) == IF g.winner = w THEN F32One ELSE F32Zero

\* C13: at every node and for each outcome, a leaf's probability is 1 when
\* its game's winner is that outcome and 0 otherwise; a non-leaf's
\* probability is the arithmetic mean of its children's probabilities (the
\* f32 sum of the children's values, left to right, divided by their
\* number); and each Edge's cached x_wins, o_wins and ties are the values
\* child.x_wins(), child.o_wins() and child.ties() return.
C13_LeafValuesMeansAndCaches ==
    LET g == node.game
        n == Len(node.edges)
        q == child_wins(g)
        \* wins(g), unfolded once so that the children are evaluated once
        own == IF is_finished(g) THEN leaf_wins(g) ELSE mean_wins(q) IN
    /\ is_finished(g) =>
           /\ n = 0
           /\ own.x_wins = Indicator(g, "WinnerX")
           /\ own.o_wins = Indicator(g, "WinnerO")
           /\ own.ties = Indicator(g, "WinnerTie")
    /\ ~is_finished(g) =>
           /\ n >= 1 /\ Len(q) = n
           /\ own.x_wins = F32DivLen(F32Sum(q, "x_wins", n), n)
           /\ own.o_wins = F32DivLen(F32Sum(q, "o_wins", n), n)
           /\ own.ties = F32DivLen(F32Sum(q, "ties", n), n)
    /\ \A i \in 1 .. n :
           LET e == make_edge(node.edges[i], q[i]) IN
           /\ e.child = node.edges[i]
           /\ e.x_wins = q[i].x_wins
           /\ e.o_wins = q[i].o_wins
           /\ e.ties = q[i].ties

\* a node with two edges, one to a leaf won by O and one to a game that ends
\* in a tie: O-win probability 0.5, cached 1.0 and 0.0
C13_Witness ==
    /\ depth = 7
    /\ Len(node.edges) = 2
    /\ LET q == child_wins(node.game)
           e1 == make_edge(node.edges[1], q[1])
           e2 == make_edge(node.edges[2], q[2]) IN
       /\ e1.o_wins = F32One /\ e2.o_wins = F32Zero /\ e2.ties = F32One
       /\ is_finished(e1.child) /\ ~is_finished(e2.child)
       /\ wins(node.game).o_wins = [m |-> 2^23, e |-> -24]

\* C14: every path of successful moves from the empty board reaches a
\* terminal game after at most 9 moves, so the recursion of GameTree::from is
\* never deeper than 9, and a node at depth d has at most 9 - d children.
C14_DepthAndBreadthBounded ==
    /\ depth <= 9
    /\ depth = Cardinality(Pos \ EmptyCells(node.game.board))
    /\ (depth = 9 => is_finished(node.game))
    /\ Len(node.edges) <= 9 - depth
    /\ (~is_finished(node.game) => Len(node.edges) = 9 - depth)

\* the deepest inner node: eight moves played, one child left
C14_Witness ==
    /\ depth = 8
    /\ ~is_finished(node.game)
    /\ Len(node.edges) = 1
    /\ is_finished(node.edges[1])

\* C15: in the GameTree rendering, for each edge the number on the line
\* labelled "O wins:" is the edge's cached O-win probability, the number on
\* the line labelled "X wins:" its cached X-win probability, and the number
\* on the line labelled "Ties:" its cached tie probability.
C15_RenderedLabelsMatchCaches ==
    LET es == tree_edges(node.game) IN
    \A i \in 1 .. Len(node.edges) :
        LET e == es[i]
            lines == fmt_edge(e) IN
        \A j \in 1 .. Len(lines) :
            /\ lines[j].label = "O wins: " => lines[j].value = e.o_wins
            /\ lines[j].label = "X wins: " => lines[j].value = e.x_wins
            /\ lines[j].label = "Ties: " => lines[j].value = e.ties

\* C16 as stated: the complete game tree built from the empty board (root,
\* internal nodes and leaves) contains at most 9! = 362,880 nodes.
C16_AtMostFactorialNodes ==
    depth = 0 => tree_count(node.game).nodes <= 362880

\* C16 amended: the complete game tree built from the empty board contains
\* exactly 549,946 nodes, which is more than 9! = 362,880 and at most
\* 986,410, the number of sequences of at most nine distinct cells.
C16_NodeCount ==
    depth = 0 =>
        LET c == tree_count(node.game) IN
        /\ c.nodes = 549946
        /\ c.nodes > 362880
        /\ c.nodes <= 986410

C16_Witness ==
    /\ depth = 0
    /\ node.game = Game_new
    /\ LET c == tree_count(node.game) IN
       c.nodes > 362880 /\ c.nodes > c.leaves

\* C17: the tree built from the empty board has exactly 255,168 leaves.
C17_LeafCount ==
    depth = 0 => tree_count(node.game).leaves = 255168

C17_Witness ==
    /\ depth = 0
    /\ Len(node.edges) = 9
    /\ tree_count(node.edges[1]).leaves > 1

\* C18: in every game state reachable from Game::new() by make_move calls,
\* the stored winner equals to_winner of the current board (None on the empty
\* board), so the game is finished exactly when the board contains a
\* complete line or is full.
C18_WinnerIsToWinnerOfBoard ==
    /\ game.winner = to_winner(game.board)
    /\ (placed = << >> => game.winner = None)
    /\ (is_finished(game) <=>
            (CompleteLines(game.board) # {} \/ Full(game.board)))

\* a game won by O with cells left, after a further call was refused
C18_Witness ==
    /\ game.winner = "WinnerO"
    /\ LineOf(game.board, "O") # {}
    /\ ~Full(game.board)
    /\ res.kind = "GameAlreadyOver"

\* number of cells holding mark m
Marks(board, m) == Cardinality({p \in Pos : board[p] = m})

\* C19: in every reachable game state the number of X marks minus the number
\* of O marks is 0 when X is to move and 1 when O is to move; winner X only
\* with one more X than O (at least 3 X), winner O only with equal counts (at
\* least 3 O), winner Tie only with all nine cells occupied.
C19_MarkCountsAndWinner ==
    LET g == node.game
        nx == Marks(g.board, "X")
        no == Marks(g.board, "O") IN
    /\ g.current_piece = "X" => nx - no = 0
    /\ g.current_piece = "O" => nx - no = 1
    /\ g.winner = "WinnerX" => nx = no + 1 /\ nx >= 3
    /\ g.winner = "WinnerO" => nx = no /\ no >= 3
    /\ g.winner = "WinnerTie" => nx + no = 9

\* O wins with its third mark
C19_Witness ==
    /\ node.game.winner = "WinnerO"
    /\ Marks(node.game.board, "O") = 3
    /\ Marks(node.game.board, "X") = 3
    /\ node.game.current_piece = "X"

====
